---- MODULE Spec2Model ----
(***************************************************************************)
(* A model of the plexible client (package plexible, Client in client.go   *)
(* as of the channel-based AddPlayer revision, src/unnamed/part_004) and   *)
(* of the example engine's command loop (src/player/player.go).            *)
(*                                                                         *)
(* State: the player list with each player's latest timeline, the engine   *)
(* and the timeline pump of each player, the controller table (a list of   *)
(* pointers to registeredController objects kept in a heap), the pending   *)
(* expiry callbacks, the controllers mutex and the HTTP handlers in flight.*)
(* A handler that has returned leaves the state, and so does an object     *)
(* nothing refers to any more, as under Go's garbage collector.            *)
(*                                                                         *)
(* Every operation that runs wholly under controllersLock is one step; a   *)
(* step that needs the mutex is enabled only while the mutex is free.      *)
(* notifyControllers keeps the mutex across its sends and is a sequence of *)
(* steps.  An unbuffered channel send and its receive are one step.        *)
(***************************************************************************)
EXTENDS Integers, Sequences, FiniteSets, TLC

VARIABLES
    started,      \* Client.Start has returned nil: the API is serving
    crashed,      \* a goroutine panicked outside net/http's recover
    players,      \* Client.players: <<[Type, Capabilities, Timeline]>>
    engines,      \* per player, the engine behind Timelines / Cmds
    pumps,        \* per player, the goroutine AddPlayer starts
    controllers,  \* Client.controllers: a list of registeredController ids
    rcs,          \* the registeredController objects, by id
    callbacks,    \* per timer, the AfterFunc goroutines not yet in forgetController
    closed,       \* the poll channels that have been closed
    lock,         \* Client.controllersLock: 0 free, p held by pump p
    handlers,     \* the HTTP handlers in flight, by request number
    nreq,         \* the number of requests accepted so far
    lastSend,     \* the last controller.Send: who was sent what
    seen,         \* history: per clientID, the commandIDs its requests carried
    lastSeen,     \* history: per clientID, its latest request with a commandID
    lastPoll,     \* the response last written to a poll without wait=1
    startPc,      \* where the call of Client.Start is
    stopPc,       \* where the call of Client.Stop is
    apiListener,  \* Client.apiListener: the TCP listener and the port it has
    apiPort,      \* Client.apiPort
    apiLoop,      \* the goroutine around http.Serve
    discoveryConn,\* Client.discoveryConn: the UDP socket
    discovery,    \* Client.discovery: the ClientDiscovery and its Port
    discLoop,     \* the goroutine in ClientDiscovery.Serve
    sent,         \* the discovery datagrams the device has emitted
    lastResources,\* the Player elements last written by /resources
    playersLock,  \* Client.playersLock: 0, a pump p, or a handler h as -h
    epoch,        \* how many times a pump has stored a Timeline
    snapAt,       \* per goroutine, the epoch of the snapshot it holds
    gotAt         \* per record, the epoch of the snapshot last sent to it

\* The services: the API listener, discovery, and the calls that start and
\* stop them.
accVars == <<playersLock, epoch, snapAt, gotAt>>

lifeVars == <<startPc, stopPc, apiListener, apiPort, apiLoop, discoveryConn,
              discovery, discLoop, sent, lastResources, accVars>>

vars == <<started, crashed, players, engines, pumps, controllers, rcs,
          callbacks, closed, lock, handlers, nreq, lastSend, seen, lastSeen,
          lastPoll, lifeVars>>

(***************************************************************************)
(* Bounds of the model and the inputs it draws.                            *)
(***************************************************************************)
MaxRequests == 3
MaxPlayers == 1
MaxCommandID == 2
MaxRegistered == 2

ClientIDs == {"c1", "c2"}
CommandIDs == 1..MaxCommandID
URLs == {"http://10.0.0.7:32500/"}
PlayerTypes == {"music"}
RequestTypes == {"music", "video"}
CmdTypes == {"play", "pause", "stop", "seekTo"}
Fetches == {"tracks", "notracks", "error"}
Ports == {49152, 49153}
Addrs == {"10.0.0.7:40000", "10.0.0.8:40000"}
ServerURLs == {"http://10.0.0.5:32400"}
ContainerKeys == {"/x", "/y"}
Keys == {"/x/1"}
Offsets == {-1, 0, 5000}

(***************************************************************************)
(* Program constants.                                                      *)
(***************************************************************************)
DeviceID == "862b2506-ba0a-11e4-b501-cf0a1568e6a3"
TypeMusic == "music"
StateStopped == "stopped"
StatePaused == "paused"
StatePlaying == "playing"

NilTimeline == "nil"
NilTimer == "nil"
NilChan == 0
NilMC == [machineIdentifier |-> "", commandID |-> 0, timelines |-> <<>>]
NoSend == [to |-> 0, clientID |-> "", kind |-> "", mc |-> NilMC]
NilListener == [state |-> "nil", port |-> 0]
NilDiscovery == [nil |-> TRUE, Port |-> 0]
NoAddr == ""
NoArg == [ServerURL |-> "", MediaContainer |-> "", ContainerKey |-> "", Key |-> "",
          Offset |-> 0]

RemoveAt(s, i) == [j \in 1..(Len(s) - 1) |-> IF j < i THEN s[j] ELSE s[j + 1]]

Range(s) == {s[i] : i \in DOMAIN s}

\* The objects still referred to: by the table, or by the rc of a handler.
Collect(heap, ctrls, hs) ==
    [r \in DOMAIN heap \cap (Range(ctrls) \cup {hs[h].rc : h \in DOMAIN hs}) |-> heap[r]]

\* The closed channels some polling record still holds.
CollectChans(chans, heap) == chans \cap {heap[r].ch : r \in DOMAIN heap}

Drop(hs, h) == [g \in DOMAIN hs \ {h} |-> hs[g]]

(***************************************************************************)
(* The pure functions of client.go.                                        *)
(***************************************************************************)
makeTimeline(clientID, commandID, timeline) ==
    [machineIdentifier |-> clientID, commandID |-> commandID, timelines |-> timeline]

collectTimelines ==
    LET nn == SelectSeq(players, LAMBDA p : p.Timeline # NilTimeline)
    IN  [i \in 1..Len(nn) |-> [Type |-> nn[i].Type, State |-> nn[i].Timeline]]

\* strconv.ParseUint(s, 10, 64) with its error dropped: 0 for a string that
\* is no unsigned number (here -1), the number otherwise.
ParseUint(o) == IF o >= 0 THEN o ELSE 0

\* The command with the places of containerKey and key exchanged.
PlayMediaCommandSwapped(serverURL, mc, containerKey, key, offset) ==
    [ServerURL |-> serverURL, MediaContainer |-> mc, ContainerKey |-> key,
     Key |-> containerKey, Offset |-> offset]

\* &PlayMediaCommand{serverURL, mc, containerKey, key, offset}
PlayMediaCommand(serverURL, mc, containerKey, key, offset) ==
    [ServerURL |-> serverURL, MediaContainer |-> mc, ContainerKey |-> containerKey,
     Key |-> key, Offset |-> offset]

\* The lookup that takes the first player whatever its type.
playerForTypeFirst(t) == IF players = <<>> THEN 0 ELSE 1

\* The index of the first player of type t, 0 for nil.
playerForType(t) ==
    IF \E i \in DOMAIN players : players[i].Type = t
    THEN CHOOSE i \in DOMAIN players :
            /\ players[i].Type = t
            /\ \A j \in 1..(i - 1) : players[j].Type # t
    ELSE 0

\* The loop all registry operations share: the index in the table of the
\* first record whose controller.ClientID() is clientID, 0 when there is none.
FirstMatch(clientID) ==
    IF \E i \in DOMAIN controllers : rcs[controllers[i]].clientID = clientID
    THEN CHOOSE i \in DOMAIN controllers :
            /\ rcs[controllers[i]].clientID = clientID
            /\ \A j \in 1..(i - 1) : rcs[controllers[j]].clientID # clientID
    ELSE 0

(***************************************************************************)
(* The controller registry.  Each operation is given as the values it      *)
(* leaves in the table and in the heap; the step that uses it holds        *)
(* controllersLock for the whole of it.                                    *)
(***************************************************************************)
\* The loop without its test of the clientID: the first record of the table
\* takes the commandID.
updateControllerCommandIDAny(clientID, commandID) ==
    IF controllers = <<>> THEN rcs
    ELSE [rcs EXCEPT ![controllers[1]].commandID = commandID]

updateControllerCommandID(clientID, commandID) ==
    LET i == FirstMatch(clientID)
    IN  IF i = 0 THEN rcs
        ELSE [rcs EXCEPT ![controllers[i]].commandID = commandID]

\* The registration that, for an existing record, resets the timer and
\* leaves the commandID as it was.
registerSubscribingControllerKeepID(new, clientID, url, commandID) ==
    LET i == FirstMatch(clientID)
    IN  IF i # 0
        THEN IF rcs[controllers[i]].timeout = NilTimer
             THEN [panic |-> TRUE, rc |-> 0, controllers |-> controllers, rcs |-> rcs]
             ELSE [panic |-> FALSE, rc |-> controllers[i],
                   controllers |-> controllers,
                   rcs |-> [rcs EXCEPT ![controllers[i]].timeout = "armed"]]
        ELSE [panic |-> FALSE, rc |-> new,
              controllers |-> Append(controllers, new),
              rcs |-> rcs @@ (new :> [kind |-> "subscribing", clientID |-> clientID,
                                      url |-> url, ch |-> NilChan,
                                      timeout |-> "armed", commandID |-> commandID])]

\* new is the address of the object the call would allocate.  An existing
\* record is matched by clientID alone; one without a timer (a polling
\* record) makes rc.timeout.Reset dereference nil.
registerSubscribingController(new, clientID, url, commandID) ==
    LET i == FirstMatch(clientID)
    IN  IF i # 0
        THEN IF rcs[controllers[i]].timeout = NilTimer
             THEN [panic |-> TRUE, rc |-> 0, controllers |-> controllers, rcs |-> rcs]
             ELSE [panic |-> FALSE, rc |-> controllers[i],
                   controllers |-> controllers,
                   rcs |-> [rcs EXCEPT ![controllers[i]].timeout = "armed",
                                       ![controllers[i]].commandID = commandID]]
        ELSE [panic |-> FALSE, rc |-> new,
              controllers |-> Append(controllers, new),
              rcs |-> rcs @@ (new :> [kind |-> "subscribing", clientID |-> clientID,
                                      url |-> url, ch |-> NilChan,
                                      timeout |-> "armed", commandID |-> commandID])]

\* The polling registration that leaves the channel out of the record.
registerPollingControllerNoChan(new, clientID, ch, commandID) ==
    [rc |-> new,
     controllers |-> Append(controllers, new),
     rcs |-> rcs @@ (new :> [kind |-> "polling", clientID |-> clientID,
                             url |-> "", ch |-> NilChan,
                             timeout |-> NilTimer, commandID |-> commandID])]

registerPollingController(new, clientID, ch, commandID) ==
    [rc |-> new,
     controllers |-> Append(controllers, new),
     rcs |-> rcs @@ (new :> [kind |-> "polling", clientID |-> clientID,
                             url |-> "", ch |-> ch,
                             timeout |-> NilTimer, commandID |-> commandID])]

\* The forgetting that stops the timer and leaves the record in the table.
forgetControllerStopOnly(clientID) ==
    LET i == FirstMatch(clientID)
    IN  IF i = 0
        THEN [controllers |-> controllers, rcs |-> rcs]
        ELSE [controllers |-> controllers,
              rcs |-> IF rcs[controllers[i]].timeout # NilTimer
                      THEN [rcs EXCEPT ![controllers[i]].timeout = "stopped"]
                      ELSE rcs]

forgetController(clientID) ==
    LET i == FirstMatch(clientID)
    IN  IF i = 0
        THEN [controllers |-> controllers, rcs |-> rcs]
        ELSE [controllers |-> RemoveAt(controllers, i),
              rcs |-> IF rcs[controllers[i]].timeout # NilTimer
                      THEN [rcs EXCEPT ![controllers[i]].timeout = "stopped"]
                      ELSE rcs]

(***************************************************************************)
(* Construction, AddPlayer and Start.                                      *)
(***************************************************************************)
Init ==
    /\ started = FALSE
    /\ crashed = FALSE
    /\ players = <<>>
    /\ engines = <<>>
    /\ pumps = <<>>
    /\ controllers = <<>>
    /\ rcs = <<>>
    /\ callbacks = <<>>
    /\ closed = {}
    /\ lock = 0
    /\ handlers = <<>>
    /\ nreq = 0
    /\ lastSend = NoSend
    /\ seen = [c \in ClientIDs |-> {}]
    /\ lastSeen = [c \in ClientIDs |-> [commandID |-> 0, via |-> "", player |-> 0]]
    /\ lastPoll = NilMC
    /\ startPc = "idle"
    /\ stopPc = "idle"
    /\ apiListener = NilListener
    /\ apiPort = 0
    /\ apiLoop = "none"
    /\ discoveryConn = "nil"
    /\ discovery = NilDiscovery
    /\ discLoop = [pc |-> "none", addr |-> NoAddr]
    /\ sent = {}
    /\ lastResources = <<>>
    /\ playersLock = 0
    /\ epoch = 0
    /\ snapAt = <<>>
    /\ gotAt = <<>>

\* AddPlayer appends the playerInfo and starts its pump; NewPlayer of the
\* example engine starts cmdLoop with the timeline stopped.  The number of
\* players is bounded where the action is used.
AddPlayer(playerType) ==
    /\ ~crashed
    /\ players' = Append(players, [Type |-> playerType,
                                   Capabilities |-> <<"timeline", "playback">>,
                                   Timeline |-> NilTimeline])
    /\ engines' = Append(engines, [pc |-> "idle", State |-> StateStopped])
    /\ pumps' = Append(pumps, [pc |-> "idle", idx |-> 0, t |-> <<>>])
    /\ UNCHANGED <<started, crashed, controllers, rcs, callbacks, closed, lock,
                   handlers, nreq, lastSend, seen, lastSeen, lastPoll,
                   lifeVars>>

\* Start without its check of c.players.
StartCheckSkip ==
    /\ startPc = "idle"
    /\ ~crashed
    /\ startPc' = "api"
    /\ UNCHANGED <<accVars, started, crashed, players, engines, pumps, controllers, rcs,
                   callbacks, closed, lock, handlers, nreq, lastSend, seen, lastSeen,
                   lastPoll, stopPc, apiListener, apiPort, apiLoop, discoveryConn,
                   discovery, discLoop, sent, lastResources>>

\* Client.Start, called once: without a player it returns the error and
\* nothing else has happened.
StartCheck ==
    /\ startPc = "idle"
    /\ ~crashed
    /\ startPc' = IF players = <<>> THEN "failed" ELSE "api"
    /\ UNCHANGED <<accVars, started, crashed, players, engines, pumps, controllers, rcs,
                   callbacks, closed, lock, handlers, nreq, lastSend, seen, lastSeen,
                   lastPoll, stopPc, apiListener, apiPort, apiLoop, discoveryConn,
                   discovery, discLoop, sent, lastResources>>

\* startClientAPI: net.ListenTCP("tcp", nil) gives an error or a listener
\* on a port of the system's choosing; c.apiPort is that port, and the
\* goroutine around http.Serve is started.
startClientAPI(ok, port) ==
    /\ startPc = "api"
    /\ ~crashed
    /\ IF ok
       THEN /\ apiListener' = [state |-> "open", port |-> port]
            /\ apiPort' = port
            /\ apiLoop' = "serving"
            /\ startPc' = "discovery"
       ELSE /\ startPc' = "failed"
            /\ UNCHANGED <<apiListener, apiPort, apiLoop>>
    /\ UNCHANGED <<accVars, started, crashed, players, engines, pumps, controllers, rcs,
                   callbacks, closed, lock, handlers, nreq, lastSend, seen, lastSeen,
                   lastPoll, stopPc, discoveryConn, discovery, discLoop, sent,
                   lastResources>>

\* The service that is started before the API: the ClientDiscovery takes
\* the c.apiPort of a client that has no listener yet.
startClientDiscoveryEarly(ok) ==
    /\ startPc = "api"
    /\ ~crashed
    /\ IF ok
       THEN /\ discoveryConn' = "open"
            /\ discovery' = [nil |-> FALSE, Port |-> apiPort]
            /\ discLoop' = [pc |-> "reading", addr |-> NoAddr]
            /\ startPc' = "hello"
       ELSE /\ startPc' = "failed"
            /\ UNCHANGED <<discoveryConn, discovery, discLoop>>
    /\ UNCHANGED <<accVars, started, crashed, players, engines, pumps, controllers, rcs,
                   callbacks, closed, lock, handlers, nreq, lastSend, seen, lastSeen,
                   lastPoll, stopPc, apiListener, apiPort, apiLoop, sent,
                   lastResources>>

\* startClientDiscovery: net.ListenUDP gives an error, with which Start
\* returns, or the socket; c.discovery is made with c.apiPort and its Serve
\* is started in a goroutine.
startClientDiscovery(ok) ==
    /\ startPc = "discovery"
    /\ ~crashed
    /\ IF ok
       THEN /\ discoveryConn' = "open"
            /\ discovery' = [nil |-> FALSE, Port |-> apiPort]
            /\ discLoop' = [pc |-> "reading", addr |-> NoAddr]
            /\ startPc' = "hello"
       ELSE /\ startPc' = "failed"
            /\ UNCHANGED <<discoveryConn, discovery, discLoop>>
    /\ UNCHANGED <<accVars, started, crashed, players, engines, pumps, controllers, rcs,
                   callbacks, closed, lock, handlers, nreq, lastSend, seen, lastSeen,
                   lastPoll, stopPc, apiListener, apiPort, apiLoop, sent,
                   lastResources>>

\* message(header, d.Info, d.Port), as far as the claims read it.
message(header, port) == [header |-> header, Port |-> port]

\* c.discovery.Hello(nil): the datagram goes out on a socket of its own, or
\* the send fails and Start returns the error; else Start returns nil.
Hello(ok) ==
    /\ startPc = "hello"
    /\ ~crashed
    /\ IF ok
       THEN /\ sent' = sent \cup {[to |-> "broadcast",
                                    msg |-> message("HELLO * HTTP/1.0", discovery.Port)]}
            /\ startPc' = "returned"
            /\ started' = TRUE
       ELSE /\ startPc' = "failed"
            /\ UNCHANGED <<accVars, sent, started>>
    /\ UNCHANGED <<accVars, crashed, players, engines, pumps, controllers, rcs,
                   callbacks, closed, lock, handlers, nreq, lastSend, seen, lastSeen,
                   lastPoll, stopPc, apiListener, apiPort, apiLoop, discoveryConn,
                   discovery, discLoop, lastResources>>

(***************************************************************************)
(* ClientDiscovery.Serve, the goroutine around http.Serve, and Client.Stop *)
(***************************************************************************)
\* conn.ReadFrom returns a datagram from addr.
ServeRead(addr) ==
    /\ ~crashed
    /\ discLoop.pc = "reading"
    /\ discoveryConn = "open"
    /\ discLoop' = [pc |-> "responding", addr |-> addr]
    /\ UNCHANGED <<accVars, started, crashed, players, engines, pumps, controllers, rcs,
                   callbacks, closed, lock, handlers, nreq, lastSend, seen, lastSeen,
                   lastPoll, startPc, stopPc, apiListener, apiPort, apiLoop,
                   discoveryConn, discovery, sent, lastResources>>

\* conn.WriteTo(message("HTTP/1.0 200 OK", d.Info, d.Port), addr): on an
\* error, which a closed socket always gives, Serve returns and its deferred
\* conn.Close() runs.
ServeRespond(ok) ==
    /\ ~crashed
    /\ discLoop.pc = "responding"
    /\ IF ok /\ discoveryConn = "open"
       THEN /\ sent' = sent \cup {[to |-> discLoop.addr,
                                    msg |-> message("HTTP/1.0 200 OK", discovery.Port)]}
            /\ discLoop' = [pc |-> "reading", addr |-> NoAddr]
            /\ UNCHANGED discoveryConn
       ELSE /\ discLoop' = [pc |-> "exited", addr |-> NoAddr]
            /\ discoveryConn' = "closed"
            /\ UNCHANGED sent
    /\ UNCHANGED <<accVars, started, crashed, players, engines, pumps, controllers, rcs,
                   callbacks, closed, lock, handlers, nreq, lastSend, seen, lastSeen,
                   lastPoll, startPc, stopPc, apiListener, apiPort, apiLoop,
                   discovery, lastResources>>

\* conn.ReadFrom on the closed socket returns an error: Serve returns.
ServeExit ==
    /\ ~crashed
    /\ discLoop.pc = "reading"
    /\ discoveryConn = "closed"
    /\ discLoop' = [pc |-> "exited", addr |-> NoAddr]
    /\ UNCHANGED <<accVars, started, crashed, players, engines, pumps, controllers, rcs,
                   callbacks, closed, lock, handlers, nreq, lastSend, seen, lastSeen,
                   lastPoll, startPc, stopPc, apiListener, apiPort, apiLoop,
                   discoveryConn, discovery, sent, lastResources>>

\* http.Serve returns once the listener is closed; the goroutine goes on to
\* c.shutdown <- true.
ServeHTTPExit ==
    /\ ~crashed
    /\ apiLoop = "serving"
    /\ apiListener.state = "closed"
    /\ apiLoop' = "signalling"
    /\ UNCHANGED <<accVars, started, crashed, players, engines, pumps, controllers, rcs,
                   callbacks, closed, lock, handlers, nreq, lastSend, seen, lastSeen,
                   lastPoll, startPc, stopPc, apiListener, apiPort, discoveryConn,
                   discovery, discLoop, sent, lastResources>>

\* Client.Stop, called once Start has returned nil: c.discoveryConn.Close().
StopCloseDiscovery ==
    /\ ~crashed
    /\ started
    /\ stopPc = "idle"
    /\ discoveryConn' = "closed"
    /\ stopPc' = "bye"
    /\ UNCHANGED <<accVars, started, crashed, players, engines, pumps, controllers, rcs,
                   callbacks, closed, lock, handlers, nreq, lastSend, seen, lastSeen,
                   lastPoll, startPc, apiListener, apiPort, apiLoop, discovery,
                   discLoop, sent, lastResources>>

\* A Stop that returns the error of Bye.
ByeAbort(ok) ==
    /\ ~crashed
    /\ stopPc = "bye"
    /\ sent' = IF ok
               THEN sent \cup {[to |-> "broadcast",
                                msg |-> message("BYE * HTTP/1.0", discovery.Port)]}
               ELSE sent
    /\ stopPc' = IF ok THEN "closeapi" ELSE "failed"
    /\ UNCHANGED <<accVars, started, crashed, players, engines, pumps, controllers, rcs,
                   callbacks, closed, lock, handlers, nreq, lastSend, seen, lastSeen,
                   lastPoll, startPc, apiListener, apiPort, apiLoop, discoveryConn,
                   discovery, discLoop, lastResources>>

\* c.discovery.Bye(nil), on a socket of its own; its error is dropped.
Bye(ok) ==
    /\ ~crashed
    /\ stopPc = "bye"
    /\ sent' = IF ok
               THEN sent \cup {[to |-> "broadcast",
                                msg |-> message("BYE * HTTP/1.0", discovery.Port)]}
               ELSE sent
    /\ stopPc' = "closeapi"
    /\ UNCHANGED <<accVars, started, crashed, players, engines, pumps, controllers, rcs,
                   callbacks, closed, lock, handlers, nreq, lastSend, seen, lastSeen,
                   lastPoll, startPc, apiListener, apiPort, apiLoop, discoveryConn,
                   discovery, discLoop, lastResources>>

\* c.apiListener.Close()
StopCloseAPI ==
    /\ ~crashed
    /\ stopPc = "closeapi"
    /\ apiListener' = [apiListener EXCEPT !.state = "closed"]
    /\ stopPc' = "wait"
    /\ UNCHANGED <<accVars, started, crashed, players, engines, pumps, controllers, rcs,
                   callbacks, closed, lock, handlers, nreq, lastSend, seen, lastSeen,
                   lastPoll, startPc, apiPort, apiLoop, discoveryConn, discovery,
                   discLoop, sent, lastResources>>

\* <-c.shutdown meets c.shutdown <- true of the API goroutine; Stop returns.
StopWait ==
    /\ ~crashed
    /\ stopPc = "wait"
    /\ apiLoop = "signalling"
    /\ apiLoop' = "exited"
    /\ stopPc' = "returned"
    /\ UNCHANGED <<accVars, started, crashed, players, engines, pumps, controllers, rcs,
                   callbacks, closed, lock, handlers, nreq, lastSend, seen, lastSeen,
                   lastPoll, startPc, apiListener, apiPort, discoveryConn,
                   discovery, discLoop, sent, lastResources>>

\* A request can be accepted.  The steps of Start after the listener is
\* bound touch nothing a handler reads, and the port is made known by the
\* discovery datagrams only: requests are taken up once Start has returned.
Serving == started /\ apiListener.state = "open" /\ ~crashed /\ nreq < MaxRequests

NewHandler == nreq + 1

Handler(kind, clientID, commandID, pc) ==
    [kind |-> kind, clientID |-> clientID, commandID |-> commandID, pc |-> pc,
     rc |-> 0, cmd |-> "", arg |-> NoArg, player |-> 0, resp |-> NilMC]

\* The history of the requests that bring a commandID to the registry: the
\* endpoint (via) and, for a playback request, the player its command goes to.
Observe(clientID, commandID, via, player) ==
    /\ seen' = [seen EXCEPT ![clientID] = @ \cup {commandID}]
    /\ lastSeen' = [lastSeen EXCEPT ![clientID] =
                       [commandID |-> commandID, via |-> via, player |-> player]]

(***************************************************************************)
(* /player/timeline/poll                                                   *)
(***************************************************************************)
\* The handler that first records the request's commandID in the table, as
\* the playback handlers do.
PollNoWaitRecordID(clientID, commandID) ==
    /\ Serving
    /\ lock = 0
    /\ nreq' = nreq + 1
    /\ rcs' = updateControllerCommandID(clientID, commandID)
    /\ lastPoll' = makeTimeline(DeviceID, commandID, collectTimelines)
    /\ UNCHANGED <<started, crashed, players, engines, pumps, controllers,
                   callbacks, closed, lock, handlers, lastSend, seen, lastSeen,
                   lifeVars>>

\* wait # "1": the response is makeTimeline(c.Info.ID, commandID,
\* c.collectTimelines()), written at once; nothing of the client's state is
\* touched and the handler has returned.
PollNoWait(clientID, commandID) ==
    /\ Serving
    /\ nreq' = nreq + 1
    /\ lastPoll' = makeTimeline(DeviceID, commandID, collectTimelines)
    /\ UNCHANGED <<started, crashed, players, engines, pumps, controllers, rcs,
                   callbacks, closed, lock, handlers, lastSend, seen, lastSeen,
                   lifeVars>>

\* wait = "1": make the channel, register the polling record and park in the
\* select.  The channel is named after the request that made it.
PollWait(clientID, commandID) ==
    /\ Serving
    /\ lock = 0
    /\ nreq' = nreq + 1
    /\ LET r == registerPollingController(NewHandler, clientID, NewHandler, commandID)
       IN  /\ controllers' = r.controllers
           /\ rcs' = r.rcs
    /\ handlers' = handlers @@
          (NewHandler :> Handler("poll", clientID, commandID, "parked"))
    /\ Observe(clientID, commandID, "poll", 0)
    /\ UNCHANGED <<started, crashed, players, engines, pumps, callbacks, closed,
                   lock, lastSend, lastPoll,
                   lifeVars>>

\* The handler that answers the deadline with the commandID of its record.
PollDeadlineRecordID(h) ==
    /\ ~crashed
    /\ handlers[h].kind = "poll"
    /\ handlers[h].pc = "parked"
    /\ handlers' = [handlers EXCEPT
          ![h].pc = "responded",
          ![h].resp = makeTimeline(DeviceID,
                                   IF h \in DOMAIN rcs THEN rcs[h].commandID
                                   ELSE handlers[h].commandID,
                                   collectTimelines)]
    /\ UNCHANGED <<started, crashed, players, engines, pumps, controllers, rcs,
                   callbacks, closed, lock, nreq, lastSend, seen, lastSeen, lastPoll,
                   lifeVars>>

\* The select takes <-time.After(30 s): mc is nil, so the response is built
\* from collectTimelines with the request's commandID and written.
PollDeadline(h) ==
    /\ ~crashed
    /\ handlers[h].kind = "poll"
    /\ handlers[h].pc = "parked"
    /\ handlers' = [handlers EXCEPT
          ![h].pc = "responded",
          ![h].resp = makeTimeline(DeviceID, handlers[h].commandID, collectTimelines)]
    /\ UNCHANGED <<started, crashed, players, engines, pumps, controllers, rcs,
                   callbacks, closed, lock, nreq, lastSend, seen, lastSeen, lastPoll,
                   lifeVars>>

\* The deferred forgetController(controllerID), after the response is
\* written; the handler returns.
PollForget(h) ==
    /\ ~crashed
    /\ handlers[h].kind = "poll"
    /\ handlers[h].pc \in {"delivered", "responded"}
    /\ lock = 0
    /\ LET r == forgetController(handlers[h].clientID)
           heap == Collect(r.rcs, r.controllers, Drop(handlers, h))
       IN  /\ controllers' = r.controllers
           /\ rcs' = heap
           /\ closed' = CollectChans(closed, heap)
    /\ handlers' = Drop(handlers, h)
    /\ UNCHANGED <<started, crashed, players, engines, pumps, callbacks, lock,
                   nreq, lastSend, seen, lastSeen, lastPoll,
                   lifeVars>>

(***************************************************************************)
(* /player/playback/{cmd} and /player/playback/playMedia                   *)
(***************************************************************************)
\* The handler that is still inside controllersLock when it sends the command.
PlaybackKeepsLock(clientID, commandID, cmdType, playerType) ==
    /\ Serving
    /\ lock = 0
    /\ playersLock = 0
    /\ nreq' = nreq + 1
    /\ lock' = -NewHandler
    /\ rcs' = updateControllerCommandID(clientID, commandID)
    /\ handlers' =
          IF cmdType \notin {"pause", "play", "stop"} \/ playerForType(playerType) = 0
          THEN handlers
          ELSE handlers @@
                 (NewHandler :> [Handler("playback", clientID, commandID, "sending")
                                    EXCEPT !.cmd = cmdType,
                                           !.player = playerForType(playerType)])
    /\ Observe(clientID, commandID, "playback",
               IF cmdType \in {"pause", "play", "stop"}
               THEN playerForType(playerType) ELSE 0)
    /\ UNCHANGED <<started, crashed, players, engines, pumps, controllers,
                   callbacks, closed, lastSend, lastPoll,
                   lifeVars>>

\* updateControllerCommandID first; then an unrecognised command or a type
\* without a player ends the request, else the handler goes on to send the
\* command on the player's Cmds channel.
Playback(clientID, commandID, cmdType, playerType) ==
    /\ Serving
    /\ lock = 0
    /\ playersLock = 0
    /\ nreq' = nreq + 1
    /\ rcs' = updateControllerCommandID(clientID, commandID)
    /\ handlers' =
          IF cmdType \notin {"pause", "play", "stop"} \/ playerForType(playerType) = 0
          THEN handlers
          ELSE handlers @@
                 (NewHandler :> [Handler("playback", clientID, commandID, "sending")
                                    EXCEPT !.cmd = cmdType,
                                           !.player = playerForType(playerType)])
    /\ Observe(clientID, commandID, "playback",
               IF cmdType \in {"pause", "play", "stop"}
               THEN playerForType(playerType) ELSE 0)
    /\ UNCHANGED <<started, crashed, players, engines, pumps, controllers,
                   callbacks, closed, lock, lastSend, lastPoll,
                   lifeVars>>

\* fetch is what getXML gives: an error, a container without tracks, or one
\* with tracks (the music player is then looked up); the decoded container
\* goes by the same name.  serverURL stands for protocol://address:port.
PlayMedia(clientID, commandID, fetch, serverURL, containerKey, key, offset) ==
    /\ Serving
    /\ lock = 0
    /\ playersLock = 0
    /\ nreq' = nreq + 1
    /\ rcs' = updateControllerCommandID(clientID, commandID)
    /\ handlers' =
          IF fetch # "tracks" \/ playerForType(TypeMusic) = 0
          THEN handlers
          ELSE handlers @@
                 (NewHandler :> [Handler("playMedia", clientID, commandID, "sending")
                                    EXCEPT !.cmd = "playMedia",
                                           !.arg = PlayMediaCommand(serverURL, fetch,
                                                      containerKey, key, ParseUint(offset)),
                                           !.player = playerForType(TypeMusic)])
    /\ Observe(clientID, commandID, "playback",
               IF fetch = "tracks" THEN playerForType(TypeMusic) ELSE 0)
    /\ UNCHANGED <<started, crashed, players, engines, pumps, controllers,
                   callbacks, closed, lock, lastSend, lastPoll,
                   lifeVars>>

\* The state cmdLoop gives the timeline for a command.
CmdState(cmd, state) ==
    CASE cmd = "playMedia" -> StatePlaying
      [] cmd = "pause" -> StatePaused
      [] cmd = "play" -> StatePlaying
      [] cmd = "stop" -> StateStopped
      [] OTHER -> state

\* player.Cmds <- cmd meets cmd := <-p.cmds of the engine's loop, which sets
\* the state and goes on to send the timeline; the handler returns.
EngineRecv(h) ==
    /\ ~crashed
    /\ handlers[h].pc = "sending"
    /\ engines[handlers[h].player].pc = "idle"
    /\ engines' = [engines EXCEPT
          ![handlers[h].player] =
              [pc |-> "emit", State |-> CmdState(handlers[h].cmd, @.State)]]
    /\ handlers' = Drop(handlers, h)
    /\ UNCHANGED <<started, crashed, players, pumps, controllers, rcs, callbacks,
                   closed, lock, nreq, lastSend, seen, lastSeen, lastPoll,
                   lifeVars>>

(***************************************************************************)
(* The pump AddPlayer starts for each player, and notifyControllers.       *)
(***************************************************************************)
\* The pump that calls notifyControllers without p.Timeline = t.
PumpRecvNoStore(p) ==
    /\ ~crashed
    /\ pumps[p].pc = "idle"
    /\ engines[p].pc = "emit"
    /\ engines' = [engines EXCEPT ![p].pc = "idle"]
    /\ pumps' = [pumps EXCEPT ![p].pc = "notify"]
    /\ UNCHANGED <<started, crashed, players, controllers, rcs, callbacks, closed,
                   lock, handlers, nreq, lastSend, seen, lastSeen, lastPoll,
                   lifeVars>>

\* t, ok := <-timelines meets the engine's p.timelines <- p.timeline;
\* p.Timeline = t.
PumpRecv(p) ==
    /\ ~crashed
    /\ pumps[p].pc = "idle"
    /\ engines[p].pc = "emit"
    /\ players' = [players EXCEPT ![p].Timeline = engines[p].State]
    /\ engines' = [engines EXCEPT ![p].pc = "idle"]
    /\ pumps' = [pumps EXCEPT ![p].pc = "notify"]
    /\ UNCHANGED <<started, crashed, controllers, rcs, callbacks, closed, lock,
                   handlers, nreq, lastSend, seen, lastSeen, lastPoll,
                   lifeVars>>

\* notifyControllers: take controllersLock, then the snapshot.
PumpLock(p) ==
    /\ ~crashed
    /\ pumps[p].pc = "notify"
    /\ lock = 0
    /\ lock' = p
    /\ pumps' = [pumps EXCEPT ![p] = [pc |-> "sending", idx |-> 1, t |-> collectTimelines]]
    /\ UNCHANGED <<started, crashed, players, engines, controllers, rcs, callbacks,
                   closed, handlers, nreq, lastSend, seen, lastSeen, lastPoll,
                   lifeVars>>

\* What SendTimeline hands to rc.controller.Send.
TimelineFor(rc, t) == makeTimeline(DeviceID, rcs[rc].commandID, t)

Sent(rc, mc) ==
    [to |-> rc, clientID |-> rcs[rc].clientID, kind |-> rcs[rc].kind, mc |-> mc]

\* SendTimeline to a subscribing record: the POST, answered with 200.
PumpSendSubscribing(p) ==
    /\ ~crashed
    /\ pumps[p].pc = "sending"
    /\ pumps[p].idx <= Len(controllers)
    /\ LET rc == controllers[pumps[p].idx]
       IN  /\ rcs[rc].kind = "subscribing"
           /\ lastSend' = Sent(rc, TimelineFor(rc, pumps[p].t))
    /\ pumps' = [pumps EXCEPT ![p].idx = @ + 1]
    /\ UNCHANGED <<started, crashed, players, engines, controllers, rcs, callbacks,
                   closed, lock, handlers, nreq, seen, lastSeen, lastPoll,
                   lifeVars>>

\* A notifyControllers that returns at the first error of SendTimeline.
PumpSendFailedAbort(p) ==
    /\ ~crashed
    /\ pumps[p].pc = "sending"
    /\ pumps[p].idx <= Len(controllers)
    /\ rcs[controllers[pumps[p].idx]].kind = "subscribing"
    /\ pumps' = [pumps EXCEPT ![p].idx = Len(controllers) + 1]
    /\ UNCHANGED <<started, crashed, players, engines, controllers, rcs, callbacks,
                   closed, lock, handlers, nreq, lastSend, seen, lastSeen, lastPoll,
                   lifeVars>>

\* SendTimeline to a subscribing record whose Send returns an error (the
\* POST fails or is answered with another status than 200): SendTimeline logs
\* it, notifyControllers drops what SendTimeline returns, the loop goes on.
PumpSendFailed(p) ==
    /\ ~crashed
    /\ pumps[p].pc = "sending"
    /\ pumps[p].idx <= Len(controllers)
    /\ rcs[controllers[pumps[p].idx]].kind = "subscribing"
    /\ pumps' = [pumps EXCEPT ![p].idx = @ + 1]
    /\ UNCHANGED <<started, crashed, players, engines, controllers, rcs, callbacks,
                   closed, lock, handlers, nreq, lastSend, seen, lastSeen, lastPoll,
                   lifeVars>>

\* SendTimeline to a polling record whose channel is open: c.ch <- mc meets
\* mc = <-ch of the parked handler, then close(c.ch).  With the handler past
\* its select and the channel open, the send has no receiver and this step is
\* not enabled.  (The handler's commandID = rc.commandID is an assignment to
\* a local that is not read again: mc is not nil.)
PumpSendPolling(p) ==
    /\ ~crashed
    /\ pumps[p].pc = "sending"
    /\ pumps[p].idx <= Len(controllers)
    /\ LET rc == controllers[pumps[p].idx]
           ch == rcs[rc].ch
       IN  /\ rcs[rc].kind = "polling"
           /\ ch \notin closed
           /\ ch \in DOMAIN handlers
           /\ handlers[ch].pc = "parked"
           /\ lastSend' = Sent(rc, TimelineFor(rc, pumps[p].t))
           /\ handlers' = [handlers EXCEPT
                 ![ch].pc = "delivered",
                 ![ch].resp = TimelineFor(rc, pumps[p].t)]
           /\ closed' = closed \cup {ch}
    /\ pumps' = [pumps EXCEPT ![p].idx = @ + 1]
    /\ UNCHANGED <<started, crashed, players, engines, controllers, rcs, callbacks,
                   lock, nreq, seen, lastSeen, lastPoll,
                   lifeVars>>

\* SendTimeline to a polling record whose channel is closed: the send panics
\* in the pump's goroutine, which nothing recovers.
PumpSendClosed(p) ==
    /\ ~crashed
    /\ pumps[p].pc = "sending"
    /\ pumps[p].idx <= Len(controllers)
    /\ LET rc == controllers[pumps[p].idx]
       IN  /\ rcs[rc].kind = "polling"
           /\ rcs[rc].ch \in closed
    /\ crashed' = TRUE
    /\ UNCHANGED <<started, players, engines, pumps, controllers, rcs, callbacks,
                   closed, lock, handlers, nreq, lastSend, seen, lastSeen, lastPoll,
                   lifeVars>>

\* The loop is over: the deferred Unlock.
PumpUnlock(p) ==
    /\ ~crashed
    /\ pumps[p].pc = "sending"
    /\ pumps[p].idx > Len(controllers)
    /\ lock' = 0
    /\ pumps' = [pumps EXCEPT ![p] = [pc |-> "idle", idx |-> 0, t |-> <<>>]]
    /\ UNCHANGED <<started, crashed, players, engines, controllers, rcs, callbacks,
                   closed, handlers, nreq, lastSend, seen, lastSeen, lastPoll,
                   lifeVars>>

(***************************************************************************)
(* /resources                                                              *)
(***************************************************************************)
\* strings.Join(a, sep), as the sequence of its pieces.
RECURSIVE Join(_, _)
Join(a, sep) ==
    IF Len(a) = 0 THEN <<>>
    ELSE IF Len(a) = 1 THEN <<a[1]>>
    ELSE <<a[1], sep>> \o Join(Tail(a), sep)

\* The zero value of the player struct.
ZeroPlayer ==
    [Title |-> "", MachineIdentifier |-> "", Product |-> "", Version |-> "",
     ProtocolVersion |-> "", ProtocolCapabilities |-> <<>>, DeviceClass |-> ""]

\* The element the handler appends for p, with the ClientInfo of main.
ResourcePlayer(p) ==
    [Title |-> "sharkbait", MachineIdentifier |-> DeviceID, Product |-> "GoPlex",
     Version |-> "0.0.1", ProtocolVersion |-> "1",
     ProtocolCapabilities |-> Join(p.Capabilities, ","), DeviceClass |-> "htpc"]

\* players := make([]player, len(c.players)) followed by one append for
\* each player: len(c.players) zero elements, then the appended ones.
ResourcesResponse ==
    [i \in 1..Len(players) |-> ZeroPlayer] \o
    [i \in 1..Len(players) |-> ResourcePlayer(players[i])]

\* GET /resources: the handler reads c.players and answers.
Resources ==
    /\ Serving
    /\ nreq' = nreq + 1
    /\ lastResources' = ResourcesResponse
    /\ UNCHANGED <<accVars, started, crashed, players, engines, pumps, controllers, rcs,
                   callbacks, closed, lock, handlers, lastSend, seen, lastSeen,
                   lastPoll, startPc, stopPc, apiListener, apiPort, apiLoop,
                   discoveryConn, discovery, discLoop, sent>>

(***************************************************************************)
(* /player/timeline/subscribe and /player/timeline/unsubscribe             *)
(***************************************************************************)
\* registerSubscribingController; a panic in it unwinds the handler: the
\* deferred Unlock runs and the table is as it was.  (r.RemoteAddr of a
\* served request always splits, so the 400 answer is left out.)
Subscribe(clientID, commandID, url) ==
    /\ Serving
    /\ lock = 0
    /\ nreq' = nreq + 1
    /\ LET r == registerSubscribingController(NewHandler, clientID, url, commandID)
       IN  /\ controllers' = r.controllers
           /\ rcs' = r.rcs
           /\ handlers' = handlers @@
                 (NewHandler :>
                    IF r.panic
                    THEN Handler("subscribe", clientID, commandID, "panicked")
                    ELSE [Handler("subscribe", clientID, commandID, "send")
                             EXCEPT !.rc = r.rc])
    /\ Observe(clientID, commandID, "subscribe", 0)
    /\ UNCHANGED <<started, crashed, players, engines, pumps, callbacks, closed,
                   lock, lastSend, lastPoll,
                   lifeVars>>

\* net/http recovers the handler's panic, logs it and closes the connection.
SubscribeRecovered(h) ==
    /\ ~crashed
    /\ handlers[h].pc = "panicked"
    /\ handlers' = Drop(handlers, h)
    /\ UNCHANGED <<started, crashed, players, engines, pumps, controllers, rcs,
                   callbacks, closed, lock, nreq, lastSend, seen, lastSeen, lastPoll,
                   lifeVars>>

\* c.SendTimeline(rc, c.collectTimelines()), without the mutex, on the
\* record the registration returned (a subscribing one); the handler returns.
SubscribeSend(h) ==
    /\ ~crashed
    /\ handlers[h].kind = "subscribe"
    /\ handlers[h].pc = "send"
    /\ lastSend' = Sent(handlers[h].rc, TimelineFor(handlers[h].rc, collectTimelines))
    /\ handlers' = Drop(handlers, h)
    /\ rcs' = Collect(rcs, controllers, Drop(handlers, h))
    /\ UNCHANGED <<started, crashed, players, engines, pumps, controllers,
                   callbacks, closed, lock, nreq, seen, lastSeen, lastPoll,
                   lifeVars>>

\* The same send returning an error: the handler logs it and returns.
SubscribeSendFailed(h) ==
    /\ ~crashed
    /\ handlers[h].kind = "subscribe"
    /\ handlers[h].pc = "send"
    /\ handlers' = Drop(handlers, h)
    /\ rcs' = Collect(rcs, controllers, Drop(handlers, h))
    /\ UNCHANGED <<started, crashed, players, engines, pumps, controllers,
                   callbacks, closed, lock, nreq, lastSend, seen, lastSeen, lastPoll,
                   lifeVars>>

Unsubscribe(clientID) ==
    /\ Serving
    /\ lock = 0
    /\ nreq' = nreq + 1
    /\ LET r == forgetController(clientID)
           heap == Collect(r.rcs, r.controllers, handlers)
       IN  /\ controllers' = r.controllers
           /\ rcs' = heap
           /\ closed' = CollectChans(closed, heap)
    /\ UNCHANGED <<started, crashed, players, engines, pumps, callbacks, lock,
                   handlers, lastSend, seen, lastSeen, lastPoll,
                   lifeVars>>

(***************************************************************************)
(* The pump, collectTimelines and the subscribe handler's send once more,  *)
(* with playersLock and the order of the snapshots: collectTimelines is a  *)
(* Lock, the reads and an Unlock, and a send is a step after it.           *)
(***************************************************************************)
\* t, ok := <-timelines; p.Timeline = t: the store, with no mutex taken.
AccStore(p) ==
    /\ ~crashed
    /\ pumps[p].pc = "idle"
    /\ engines[p].pc = "emit"
    /\ players' = [players EXCEPT ![p].Timeline = engines[p].State]
    /\ engines' = [engines EXCEPT ![p].pc = "idle"]
    /\ pumps' = [pumps EXCEPT ![p].pc = "notify"]
    /\ epoch' = epoch + 1
    /\ UNCHANGED <<started, crashed, controllers, rcs, callbacks, closed, lock,
                   handlers, nreq, lastSend, seen, lastSeen, lastPoll, startPc,
                   stopPc, apiListener, apiPort, apiLoop, discoveryConn,
                   discovery, discLoop, sent, lastResources, playersLock,
                   snapAt, gotAt>>

\* notifyControllers: c.controllersLock.Lock().
AccNotifyLock(p) ==
    /\ ~crashed
    /\ pumps[p].pc = "notify"
    /\ lock = 0
    /\ lock' = p
    /\ pumps' = [pumps EXCEPT ![p].pc = "collect"]
    /\ UNCHANGED <<started, crashed, players, engines, controllers, rcs,
                   callbacks, closed, handlers, nreq, lastSend, seen, lastSeen,
                   lastPoll, startPc, stopPc, apiListener, apiPort, apiLoop,
                   discoveryConn, discovery, discLoop, sent, lastResources,
                   playersLock, epoch, snapAt, gotAt>>

\* collectTimelines of the fan-out: c.playersLock.Lock().
AccCollectLock(p) ==
    /\ ~crashed
    /\ pumps[p].pc = "collect"
    /\ playersLock = 0
    /\ playersLock' = p
    /\ pumps' = [pumps EXCEPT ![p].pc = "collecting"]
    /\ UNCHANGED <<started, crashed, players, engines, controllers, rcs,
                   callbacks, closed, lock, handlers, nreq, lastSend, seen,
                   lastSeen, lastPoll, startPc, stopPc, apiListener, apiPort,
                   apiLoop, discoveryConn, discovery, discLoop, sent,
                   lastResources, epoch, snapAt, gotAt>>

\* A collectTimelines that returns with playersLock held.
AccCollectKeepLock(p) ==
    /\ ~crashed
    /\ pumps[p].pc = "collecting"
    /\ pumps' = [pumps EXCEPT ![p] = [pc |-> "sending", idx |-> 1, t |-> collectTimelines]]
    /\ snapAt' = (p :> epoch) @@ snapAt
    /\ UNCHANGED <<started, crashed, players, engines, controllers, rcs,
                   callbacks, closed, lock, handlers, nreq, lastSend, seen,
                   lastSeen, lastPoll, startPc, stopPc, apiListener, apiPort,
                   apiLoop, discoveryConn, discovery, discLoop, sent,
                   lastResources, playersLock, epoch, gotAt>>

\* The reads of collectTimelines and its deferred Unlock; the fan-out goes
\* on to its loop.
AccCollectUnlock(p) ==
    /\ ~crashed
    /\ pumps[p].pc = "collecting"
    /\ pumps' = [pumps EXCEPT ![p] = [pc |-> "sending", idx |-> 1, t |-> collectTimelines]]
    /\ snapAt' = (p :> epoch) @@ snapAt
    /\ playersLock' = 0
    /\ UNCHANGED <<started, crashed, players, engines, controllers, rcs,
                   callbacks, closed, lock, handlers, nreq, lastSend, seen,
                   lastSeen, lastPoll, startPc, stopPc, apiListener, apiPort,
                   apiLoop, discoveryConn, discovery, discLoop, sent,
                   lastResources, epoch, gotAt>>

\* SendTimeline of the fan-out to a subscribing record.
AccSend(p) ==
    /\ ~crashed
    /\ pumps[p].pc = "sending"
    /\ pumps[p].idx <= Len(controllers)
    /\ LET rc == controllers[pumps[p].idx]
       IN  /\ rcs[rc].kind = "subscribing"
           /\ lastSend' = Sent(rc, TimelineFor(rc, pumps[p].t))
           /\ gotAt' = (rc :> snapAt[p]) @@ gotAt
    /\ pumps' = [pumps EXCEPT ![p].idx = @ + 1]
    /\ UNCHANGED <<started, crashed, players, engines, controllers, rcs,
                   callbacks, closed, lock, handlers, nreq, seen, lastSeen,
                   lastPoll, startPc, stopPc, apiListener, apiPort, apiLoop,
                   discoveryConn, discovery, discLoop, sent, lastResources,
                   playersLock, epoch, snapAt>>

\* c.collectTimelines() of the subscribe handler: c.playersLock.Lock().
AccHandlerCollectLock(h) ==
    /\ ~crashed
    /\ handlers[h].kind = "subscribe"
    /\ handlers[h].pc = "send"
    /\ playersLock = 0
    /\ playersLock' = -h
    /\ handlers' = [handlers EXCEPT ![h].pc = "collecting"]
    /\ UNCHANGED <<started, crashed, players, engines, pumps, controllers, rcs,
                   callbacks, closed, lock, nreq, lastSend, seen, lastSeen,
                   lastPoll, startPc, stopPc, apiListener, apiPort, apiLoop,
                   discoveryConn, discovery, discLoop, sent, lastResources,
                   epoch, snapAt, gotAt>>

\* Its reads and its Unlock: the handler holds the snapshot.
AccHandlerCollectUnlock(h) ==
    /\ ~crashed
    /\ handlers[h].kind = "subscribe"
    /\ handlers[h].pc = "collecting"
    /\ handlers' = [handlers EXCEPT ![h].pc = "post",
                                    ![h].resp = makeTimeline(DeviceID, 0, collectTimelines)]
    /\ snapAt' = (-h :> epoch) @@ snapAt
    /\ playersLock' = 0
    /\ UNCHANGED <<started, crashed, players, engines, pumps, controllers, rcs,
                   callbacks, closed, lock, nreq, lastSend, seen, lastSeen,
                   lastPoll, startPc, stopPc, apiListener, apiPort, apiLoop,
                   discoveryConn, discovery, discLoop, sent, lastResources,
                   epoch, gotAt>>

\* c.SendTimeline(rc, t) of the subscribe handler, with the snapshot it
\* holds and the record's commandID as it is now; the handler returns.
AccHandlerSend(h) ==
    /\ ~crashed
    /\ handlers[h].kind = "subscribe"
    /\ handlers[h].pc = "post"
    /\ lastSend' = Sent(handlers[h].rc,
                        TimelineFor(handlers[h].rc, handlers[h].resp.timelines))
    /\ gotAt' = (handlers[h].rc :> snapAt[-h]) @@ gotAt
    /\ snapAt' = [g \in DOMAIN snapAt \ {-h} |-> snapAt[g]]
    /\ handlers' = Drop(handlers, h)
    /\ rcs' = Collect(rcs, controllers, Drop(handlers, h))
    /\ UNCHANGED <<started, crashed, players, engines, pumps, controllers,
                   callbacks, closed, lock, nreq, seen, lastSeen, lastPoll,
                   startPc, stopPc, apiListener, apiPort, apiLoop,
                   discoveryConn, discovery, discLoop, sent, lastResources,
                   playersLock, epoch>>

(***************************************************************************)
(* The expiry timer of a subscribing record.                               *)
(***************************************************************************)
\* The goroutines of timer rc's function that have not yet called
\* forgetController.
Pending(rc) == IF rc \in DOMAIN callbacks THEN callbacks[rc].n ELSE 0

\* controllerTimeout has passed since the timer was last armed: the runtime
\* starts the AfterFunc function, with the clientID it closed over, in a
\* goroutine of its own.
TimerFire(rc) ==
    /\ ~crashed
    /\ rcs[rc].timeout = "armed"
    /\ rcs' = [rcs EXCEPT ![rc].timeout = "expired"]
    /\ callbacks' = [r \in DOMAIN callbacks \cup {rc} |->
                        IF r = rc
                        THEN [clientID |-> rcs[rc].clientID, n |-> Pending(rc) + 1]
                        ELSE callbacks[r]]
    /\ UNCHANGED <<started, crashed, players, engines, pumps, controllers, closed,
                   lock, handlers, nreq, lastSend, seen, lastSeen, lastPoll,
                   lifeVars>>

\* That goroutine: c.forgetController(clientID).
TimerCallback(rc) ==
    /\ ~crashed
    /\ lock = 0
    /\ LET r == forgetController(callbacks[rc].clientID)
           heap == Collect(r.rcs, r.controllers, handlers)
       IN  /\ controllers' = r.controllers
           /\ rcs' = heap
           /\ closed' = CollectChans(closed, heap)
    /\ callbacks' = [r \in {x \in DOMAIN callbacks : x # rc \/ callbacks[rc].n > 1} |->
                        IF r = rc THEN [callbacks[rc] EXCEPT !.n = @ - 1]
                        ELSE callbacks[r]]
    /\ UNCHANGED <<started, crashed, players, engines, pumps, lock, handlers,
                   nreq, lastSend, seen, lastSeen, lastPoll,
                   lifeVars>>

Next ==
    \/ \E t \in PlayerTypes : Len(players) < MaxPlayers /\ AddPlayer(t)
    \/ StartCheck
    \/ \E ok \in BOOLEAN : startClientAPI(ok, 49152)
    \/ \E ok \in BOOLEAN : startClientDiscovery(ok)
    \/ \E ok \in BOOLEAN : Hello(ok)
    \/ \E c \in ClientIDs, id \in CommandIDs : PollNoWait(c, id)
    \/ \E c \in ClientIDs, id \in CommandIDs : PollWait(c, id)
    \/ \E h \in DOMAIN handlers : PollDeadline(h)
    \/ \E h \in DOMAIN handlers : PollForget(h)
    \/ \E c \in ClientIDs, id \in CommandIDs, cmd \in CmdTypes, t \in RequestTypes :
          Playback(c, id, cmd, t)
    \/ \E c \in ClientIDs, id \in CommandIDs, f \in Fetches :
          PlayMedia(c, id, f, "http://10.0.0.5:32400", "/x", "/x/1", 0)
    \/ \E h \in DOMAIN handlers : EngineRecv(h)
    \/ \E p \in DOMAIN pumps : PumpRecv(p)
    \/ \E p \in DOMAIN pumps : PumpLock(p)
    \/ \E p \in DOMAIN pumps : PumpSendSubscribing(p)
    \/ \E p \in DOMAIN pumps : PumpSendFailed(p)
    \/ \E p \in DOMAIN pumps : PumpSendPolling(p)
    \/ \E p \in DOMAIN pumps : PumpSendClosed(p)
    \/ \E p \in DOMAIN pumps : PumpUnlock(p)
    \/ \E c \in ClientIDs, id \in CommandIDs, u \in URLs : Subscribe(c, id, u)
    \/ \E h \in DOMAIN handlers : SubscribeRecovered(h)
    \/ \E h \in DOMAIN handlers : SubscribeSend(h)
    \/ \E h \in DOMAIN handlers : SubscribeSendFailed(h)
    \/ \E c \in ClientIDs : Unsubscribe(c)
    \/ \E rc \in DOMAIN rcs : TimerFire(rc)
    \/ \E rc \in DOMAIN callbacks : TimerCallback(rc)

Spec == Init /\ [][Next]_vars

(***************************************************************************)
(* The player registry and the playback endpoints alone: up to             *)
(* MaxRegistered players of either type, one controller that never         *)
(* registers, and the whole range of playMedia parameters.                 *)
(***************************************************************************)
NextPlayers ==
    \/ \E t \in RequestTypes : Len(players) < MaxRegistered /\ AddPlayer(t)
    \/ StartCheck
    \/ \E ok \in BOOLEAN : startClientAPI(ok, 49152)
    \/ \E ok \in BOOLEAN : startClientDiscovery(ok)
    \/ \E ok \in BOOLEAN : Hello(ok)
    \/ Resources
    \/ \E cmd \in CmdTypes, t \in RequestTypes : Playback("c1", 1, cmd, t)
    \/ \E f \in Fetches, s \in ServerURLs, ck \in ContainerKeys, k \in Keys,
          o \in Offsets : PlayMedia("c1", 1, f, s, ck, k, o)
    \/ \E h \in DOMAIN handlers : EngineRecv(h)
    \/ \E p \in DOMAIN pumps : PumpRecv(p)
    \/ \E p \in DOMAIN pumps : PumpLock(p)
    \/ \E p \in DOMAIN pumps : PumpUnlock(p)

SpecPlayers == Init /\ [][NextPlayers]_vars

(***************************************************************************)
(* Start, the two service loops and Stop alone: the port of the listener   *)
(* is any of Ports, datagrams come from any of Addrs, and the only request *)
(* is GET /resources.                                                      *)
(***************************************************************************)
NextLifecycle ==
    \/ \E t \in RequestTypes : Len(players) < MaxRegistered /\ AddPlayer(t)
    \/ StartCheck
    \/ \E ok \in BOOLEAN, port \in Ports : startClientAPI(ok, port)
    \/ \E ok \in BOOLEAN : startClientDiscovery(ok)
    \/ \E ok \in BOOLEAN : Hello(ok)
    \/ \E addr \in Addrs : ServeRead(addr)
    \/ \E ok \in BOOLEAN : ServeRespond(ok)
    \/ ServeExit
    \/ ServeHTTPExit
    \/ StopCloseDiscovery
    \/ \E ok \in BOOLEAN : Bye(ok)
    \/ StopCloseAPI
    \/ StopWait
    \/ Resources

SpecLifecycle == Init /\ [][NextLifecycle]_vars

(***************************************************************************)
(* The players' Timelines and who reads and writes them: two players,      *)
(* subscribing controllers, playback requests, and the pump and the        *)
(* subscribe handler in the steps of their accesses.                       *)
(***************************************************************************)
NextAccess ==
    \/ \E t \in RequestTypes :
          playersLock = 0 /\ Len(players) < MaxRegistered /\ AddPlayer(t)
    \/ StartCheck
    \/ \E ok \in BOOLEAN : startClientAPI(ok, 49152)
    \/ \E ok \in BOOLEAN : startClientDiscovery(ok)
    \/ \E ok \in BOOLEAN : Hello(ok)
    \/ \E c \in ClientIDs, u \in URLs : Subscribe(c, 1, u)
    \/ \E cmd \in CmdTypes, t \in RequestTypes : Playback("c1", 1, cmd, t)
    \/ \E h \in DOMAIN handlers : EngineRecv(h)
    \/ \E p \in DOMAIN pumps : AccStore(p)
    \/ \E p \in DOMAIN pumps : AccNotifyLock(p)
    \/ \E p \in DOMAIN pumps : AccCollectLock(p)
    \/ \E p \in DOMAIN pumps : AccCollectUnlock(p)
    \/ \E p \in DOMAIN pumps : AccSend(p)
    \/ \E p \in DOMAIN pumps : PumpUnlock(p)
    \/ \E h \in DOMAIN handlers : AccHandlerCollectLock(h)
    \/ \E h \in DOMAIN handlers : AccHandlerCollectUnlock(h)
    \/ \E h \in DOMAIN handlers : AccHandlerSend(h)

SpecAccess == Init /\ [][NextAccess]_vars

\* The same with the goroutine of Stop and the goroutine around http.Serve
\* scheduled fairly: Bye comes back (sent or not), Close returns, http.Serve
\* returns once its listener is closed, and a send and a receive that are
\* both ready on c.shutdown meet.
SpecLifecycleFair ==
    /\ Init /\ [][NextLifecycle]_vars
    /\ WF_vars(\E ok \in BOOLEAN : Bye(ok))
    /\ WF_vars(StopCloseAPI)
    /\ WF_vars(ServeHTTPExit)
    /\ WF_vars(StopWait)

(***************************************************************************)
(* Properties.                                                             *)
(***************************************************************************)
\* The records of the table whose clientID is c.
RecordsOf(c) == {r \in Range(controllers) : rcs[r].clientID = c}

\* The subscribing records of the table whose clientID is c.
SubsOf(c) == {r \in RecordsOf(c) : rcs[r].kind = "subscribing"}

\* A step that accepts a request of clientID c: a subscribe, a playback
\* command, a playMedia or a poll.
InboundStep(c) ==
    \/ \E id \in CommandIDs, u \in URLs : Subscribe(c, id, u)
    \/ \E id \in CommandIDs, cmd \in CmdTypes, t \in RequestTypes : Playback(c, id, cmd, t)
    \/ \E id \in CommandIDs, f \in Fetches, s \in ServerURLs, ck \in ContainerKeys,
          k \in Keys, o \in Offsets : PlayMedia(c, id, f, s, ck, k, o)
    \/ \E id \in CommandIDs : PollWait(c, id) \/ PollNoWait(c, id)

\* mc is the device's container for commandID id with the timelines of the
\* players that have one, as they are now.
IsSnapshot(mc, id) ==
    /\ mc.machineIdentifier = DeviceID
    /\ mc.commandID = id
    /\ Len(mc.timelines) =
          Cardinality({i \in DOMAIN players : players[i].Timeline # NilTimeline})
    /\ \A i \in DOMAIN players :
          players[i].Timeline # NilTimeline =>
             \E j \in DOMAIN mc.timelines :
                mc.timelines[j] = [Type |-> players[i].Type, State |-> players[i].Timeline]

\* A step in which a MediaContainer is sent to a controller: by the fan-out
\* or by the initial send of a subscribe request.
SendStep ==
    \/ \E p \in DOMAIN pumps : PumpSendSubscribing(p) \/ PumpSendPolling(p)
    \/ \E h \in DOMAIN handlers : SubscribeSend(h)

\* A step that is a forgetController(c): of an unsubscribe request, of a
\* poll handler's exit or of an expiry callback.
ForgetStep(c) ==
    \/ Unsubscribe(c)
    \/ \E h \in DOMAIN handlers : handlers[h].clientID = c /\ PollForget(h)
    \/ \E t \in DOMAIN callbacks : callbacks[t].clientID = c /\ TimerCallback(t)

\* C1: every MediaContainer sent to a controller carries the device id as
\* machineIdentifier and, as commandID, the commandID of the latest request
\* (subscribe, poll registration, playback) received from that controller's
\* clientID.
C1_SendCarriesLatestCommandID ==
    [][SendStep =>
         /\ lastSend'.mc.machineIdentifier = DeviceID
         /\ lastSend'.mc.commandID = lastSeen[lastSend'.clientID].commandID]_vars

\* C2: the commandID of every MediaContainer sent to a controller, and of
\* every response delivered to a parked poll, is one that a request of that
\* controller's clientID brought to the device before.
C2_SentCommandIDWasSeen ==
    /\ lastSend # NoSend => lastSend.mc.commandID \in seen[lastSend.clientID]
    /\ \A h \in DOMAIN handlers :
          handlers[h].pc = "delivered" =>
             handlers[h].resp.commandID \in seen[handlers[h].clientID]

\* C2's case: a parked poll was delivered a commandID that is not the one it
\* registered with, that is, one a playback request recorded before the
\* fan-out.
C2_Witness ==
    \E h \in DOMAIN handlers :
       /\ handlers[h].pc = "delivered"
       /\ lastSend.to = h
       /\ handlers[h].resp.commandID # handlers[h].commandID

\* C3: when the latest request of a clientID is a playback command that the
\* engine of player p has taken, and p's pump, having received the engine's
\* timeline, delivers to a parked poll of that clientID, the poll's response
\* carries that command's commandID and the engine's new state.
C3_ParkedPollGetsCommandAndState ==
    [][\A p \in DOMAIN pumps : \A h \in DOMAIN handlers :
         ( /\ PumpSendPolling(p)
           /\ handlers[h].pc = "parked"
           /\ handlers'[h].pc = "delivered"
           /\ lastSeen[handlers[h].clientID].via = "playback"
           /\ lastSeen[handlers[h].clientID].player = p
           /\ engines[p].pc = "idle"
           /\ \A g \in DOMAIN handlers :
                 handlers[g].clientID = handlers[h].clientID => handlers[g].pc # "sending" )
         => /\ handlers'[h].resp.commandID = lastSeen[handlers[h].clientID].commandID
            /\ \E i \in DOMAIN handlers'[h].resp.timelines :
                  handlers'[h].resp.timelines[i] =
                     [Type |-> players[p].Type, State |-> engines[p].State]]_vars

\* C4: after a forgetController(c) step the table holds no record whose
\* clientID is c.
C4_ForgetLeavesNoRecord ==
    [][\A c \in ClientIDs : ForgetStep(c) => RecordsOf(c)' = {}]_vars

\* C5: the expiry callback of a record that is no longer in the table removes
\* no record registered after that record was forgotten.  (The formula takes
\* the subscribing records registered after it: a clientID gets a new
\* subscribing record only once it has no record left.)
C5_StaleCallbackRemovesNothingNewer ==
    [][\A t \in DOMAIN callbacks :
         (TimerCallback(t) /\ t \notin Range(controllers))
         => \A r \in Range(controllers) :
               (r > t /\ rcs[r].kind = "subscribing") => r \in Range(controllers')]_vars

\* C6: the table holds at most one record per clientID.
C6_OneRecordPerClientID ==
    \A i, j \in DOMAIN controllers :
       rcs[controllers[i]].clientID = rcs[controllers[j]].clientID => i = j

\* C7: a subscribe request of a clientID whose only records are polling ones
\* completes without error, leaves every record of the table as it was and
\* appends one subscribing record with an armed timer.
C7_SubscribeOverPollingAdds ==
    [][\A c \in ClientIDs, id \in CommandIDs, u \in URLs :
         ( /\ Subscribe(c, id, u)
           /\ RecordsOf(c) # {}
           /\ \A r \in RecordsOf(c) : rcs[r].kind = "polling" )
         => /\ handlers'[nreq + 1].pc # "panicked"
            /\ Len(controllers') = Len(controllers) + 1
            /\ \A i \in DOMAIN controllers :
                  controllers'[i] = controllers[i] /\ rcs'[controllers[i]] = rcs[controllers[i]]
            /\ rcs'[controllers'[Len(controllers')]].kind = "subscribing"
            /\ rcs'[controllers'[Len(controllers')]].clientID = c
            /\ rcs'[controllers'[Len(controllers')]].timeout = "armed"]_vars

\* C8: every subscribing record of the table has a timer and no channel,
\* every polling record has a channel and no timer.
C8_TimerXorChannel ==
    \A r \in Range(controllers) :
       /\ rcs[r].kind \in {"subscribing", "polling"}
       /\ rcs[r].kind = "subscribing" => rcs[r].timeout # NilTimer /\ rcs[r].ch = NilChan
       /\ rcs[r].kind = "polling" => rcs[r].ch # NilChan /\ rcs[r].timeout = NilTimer
       /\ ~(rcs[r].timeout # NilTimer /\ rcs[r].ch # NilChan)

\* C8's case: the table holds a subscribing and a polling record.
C8_Witness ==
    /\ \E r \in Range(controllers) : rcs[r].kind = "subscribing"
    /\ \E r \in Range(controllers) : rcs[r].kind = "polling"

\* C9: a subscribe request of a clientID that has a subscribing record arms
\* that record's timer again, overwrites its commandID, returns it and
\* leaves the table as it is; one of a clientID without any record appends
\* one subscribing record with an armed timer, and the function a timer
\* starts when it fires forgets the clientID of the timer's record.
C9_SubscribeResetsOrAppends ==
    [][/\ \A c \in ClientIDs, id \in CommandIDs, u \in URLs :
            Subscribe(c, id, u) =>
               /\ \A r \in RecordsOf(c) :
                     rcs[r].kind = "subscribing" =>
                        /\ controllers' = controllers
                        /\ rcs' = [rcs EXCEPT ![r].timeout = "armed", ![r].commandID = id]
                        /\ handlers'[nreq + 1].pc = "send"
                        /\ handlers'[nreq + 1].rc = r
               /\ RecordsOf(c) = {} =>
                     /\ controllers' = Append(controllers, nreq + 1)
                     /\ \A r \in DOMAIN rcs : rcs'[r] = rcs[r]
                     /\ rcs'[nreq + 1] = [kind |-> "subscribing", clientID |-> c, url |-> u,
                                          ch |-> NilChan, timeout |-> "armed",
                                          commandID |-> id]
                     /\ handlers'[nreq + 1].pc = "send"
                     /\ handlers'[nreq + 1].rc = nreq + 1
       /\ \A r \in DOMAIN rcs :
            TimerFire(r) =>
               rcs[r].kind = "subscribing" /\ callbacks'[r].clientID = rcs[r].clientID]_vars

\* C9's case: a subscribe request was returned a record an earlier request
\* had registered, its commandID overwritten.
C9_Witness ==
    \E h \in DOMAIN handlers :
       /\ handlers[h].kind = "subscribe"
       /\ handlers[h].pc = "send"
       /\ handlers[h].rc \in Range(controllers)
       /\ handlers[h].rc < h
       /\ rcs[handlers[h].rc].commandID = handlers[h].commandID
       /\ Len(controllers) = 1

\* C10: a subscribing record leaves the table only in an unsubscribe request
\* of its clientID or in the callback of its own expiry timer.
C10_SubscribingRecordStays ==
    [][\A r \in Range(controllers) :
         (rcs[r].kind = "subscribing" /\ r \notin Range(controllers'))
         => \/ Unsubscribe(rcs[r].clientID)
            \/ r \in DOMAIN callbacks /\ TimerCallback(r)]_vars

\* C11: a timer that fires starts a callback; the callback of a record of the
\* table leaves the table without a subscribing record of its clientID; a
\* clientID without a subscribing record gets one only by a subscribe
\* request; and the fan-out of an engine update sends to subscribing records
\* of the table only.  So once a controller has expired, no fan-out posts to
\* it until it subscribes again.
C11_ExpiredRecordGetsNoFanOut ==
    [][/\ \A r \in DOMAIN rcs : TimerFire(r) => Pending(r)' >= 1
       /\ \A t \in DOMAIN callbacks :
             (TimerCallback(t) /\ t \in Range(controllers))
             => /\ t \notin Range(controllers')
                /\ \A c \in ClientIDs : c = callbacks[t].clientID => SubsOf(c)' = {}
       /\ \A c \in ClientIDs :
             (SubsOf(c) = {} /\ ~\E id \in CommandIDs, u \in URLs : Subscribe(c, id, u))
             => SubsOf(c)' = {}
       /\ \A p \in DOMAIN pumps :
             PumpSendSubscribing(p) => lastSend'.to \in SubsOf(lastSend'.clientID)]_vars

\* C11's case: the first request subscribed and was sent the snapshot, the
\* second was a playback command; the subscription has expired and its
\* record is gone (no unsubscribe was made), and the fan-out of the engine's
\* update runs over a table without it.
C11_Witness ==
    /\ nreq = 2
    /\ lastSend.to = 1
    /\ lastSend.kind = "subscribing"
    /\ controllers = <<>>
    /\ callbacks = <<>>
    /\ \E p \in DOMAIN pumps : pumps[p].pc = "sending"

\* C12: every request of a clientID that has a subscribing record (a
\* subscribe, a playback command, a playMedia, a poll) leaves that record's
\* timer armed anew.
C12_InboundOperationResetsTimer ==
    [][\A c \in ClientIDs : \A r \in SubsOf(c) :
         InboundStep(c) => rcs'[r].timeout = "armed"]_vars

\* C13: when a wait=1 poll handler returns, the record it registered is not
\* in the table.
C13_PollRecordGoneOnReturn ==
    [][\A h \in DOMAIN handlers : PollForget(h) => h \notin Range(controllers')]_vars

\* C14: the response of a wait=1 poll that reaches its deadline is the
\* container of the device id, the commandID of the poll request itself and
\* the timelines collected at that moment.
C14_DeadlineResponseIsFresh ==
    [][\A h \in DOMAIN handlers :
         PollDeadline(h) => /\ handlers'[h].pc = "responded"
                            /\ IsSnapshot(handlers'[h].resp, handlers[h].commandID)]_vars

\* C14's case: a poll answered at its deadline with a timeline an engine has
\* reported since, and with its own commandID although a playback request
\* has put another one in its record.
C14_Witness ==
    \E h \in DOMAIN handlers :
       /\ handlers[h].pc = "responded"
       /\ handlers[h].resp.timelines # <<>>
       /\ handlers[h].resp.commandID = handlers[h].commandID
       /\ h \in DOMAIN rcs
       /\ rcs[h].commandID # handlers[h].commandID

\* C15: a poll without wait=1 is answered in the step that accepts it, with
\* the current snapshot and the request's commandID; it is accepted whether
\* controllersLock is held or not, leaves no handler waiting and changes
\* neither the table nor a record.
C15_PollNoWaitIsSynchronous ==
    [][\A c \in ClientIDs, id \in CommandIDs :
         /\ Serving => ENABLED PollNoWait(c, id)
         /\ PollNoWait(c, id) => /\ IsSnapshot(lastPoll', id)
                                 /\ controllers' = controllers
                                 /\ rcs' = rcs
                                 /\ handlers' = handlers
                                 /\ callbacks' = callbacks]_vars

\* C15's case: a poll without wait=1 was answered with commandID 2 and a
\* timeline while the table held a record with another commandID and a
\* fan-out held controllersLock.
C15_Witness ==
    /\ lastPoll.commandID = 2
    /\ lastPoll.timelines # <<>>
    /\ lock # 0
    /\ nreq = MaxRequests
    /\ \E r \in Range(controllers) : rcs[r].commandID = 1

\* C16: no two players of the registry have the same type.
C16_OnePlayerPerType ==
    \A i, j \in DOMAIN players : players[i].Type = players[j].Type => i = j

\* C17: a playback request of a known command and of a type that has a
\* player leaves one new handler sending that command to a player of that
\* type, and no engine has changed; any other playback request leaves no
\* handler and no engine changed.  The engine that takes a handler's command
\* is the handler's player: the handler returns and no other engine changes.
C17_PlaybackGoesToEngineOfType ==
    [][/\ \A c \in ClientIDs, id \in CommandIDs, cmd \in CmdTypes, t \in RequestTypes :
             Playback(c, id, cmd, t) =>
                /\ engines' = engines
                /\ IF cmd \in {"pause", "play", "stop"}
                      /\ \E i \in DOMAIN players : players[i].Type = t
                   THEN /\ DOMAIN handlers' = DOMAIN handlers \cup {nreq + 1}
                        /\ \A h \in DOMAIN handlers : handlers'[h] = handlers[h]
                        /\ handlers'[nreq + 1].pc = "sending"
                        /\ handlers'[nreq + 1].cmd = cmd
                        /\ handlers'[nreq + 1].arg = NoArg
                        /\ handlers'[nreq + 1].player \in DOMAIN players
                        /\ players[handlers'[nreq + 1].player].Type = t
                   ELSE handlers' = handlers
       /\ \A h \in DOMAIN handlers :
             EngineRecv(h) =>
                /\ DOMAIN handlers' = DOMAIN handlers \ {h}
                /\ \A e \in DOMAIN engines :
                      e # handlers[h].player => engines'[e] = engines[e]]_vars

\* C17's case: with a music and a video player registered, a pause command
\* is on its way to the second player, the video one.
C17_Witness ==
    /\ Len(players) = 2
    /\ players[1].Type = "music"
    /\ players[2].Type = "video"
    /\ \E h \in DOMAIN handlers :
          /\ handlers[h].kind = "playback"
          /\ handlers[h].pc = "sending"
          /\ handlers[h].cmd = "pause"
          /\ handlers[h].player = 2

\* C18: a playMedia request whose fetched container has tracks, with a music
\* player registered, leaves one new handler sending a PlayMedia command to
\* a music player, with the server URL, the decoded container, the request's
\* containerKey and key and its offset (0 when it is no unsigned number); no
\* engine has changed.  Without tracks or without a music player there is no
\* new handler and no engine has changed.
C18_PlayMediaGoesToMusicEngine ==
    [][\A c \in ClientIDs, id \in CommandIDs, f \in Fetches, s \in ServerURLs,
          ck \in ContainerKeys, k \in Keys, o \in Offsets :
          PlayMedia(c, id, f, s, ck, k, o) =>
             /\ engines' = engines
             /\ IF f = "tracks" /\ \E i \in DOMAIN players : players[i].Type = TypeMusic
                THEN /\ DOMAIN handlers' = DOMAIN handlers \cup {nreq + 1}
                     /\ \A h \in DOMAIN handlers : handlers'[h] = handlers[h]
                     /\ handlers'[nreq + 1].pc = "sending"
                     /\ handlers'[nreq + 1].cmd = "playMedia"
                     /\ handlers'[nreq + 1].arg =
                           [ServerURL |-> s, MediaContainer |-> f, ContainerKey |-> ck,
                            Key |-> k, Offset |-> IF o >= 0 THEN o ELSE 0]
                     /\ handlers'[nreq + 1].player \in DOMAIN players
                     /\ players[handlers'[nreq + 1].player].Type = TypeMusic
                ELSE handlers' = handlers]_vars

\* C18's case: the music player is the second of two, and a PlayMedia command
\* with the container, containerKey /y, key /x/1 and offset 5000 is on its
\* way to it.
C18_Witness ==
    /\ Len(players) = 2
    /\ players[1].Type = "video"
    /\ \E h \in DOMAIN handlers :
          /\ handlers[h].kind = "playMedia"
          /\ handlers[h].pc = "sending"
          /\ handlers[h].player = 2
          /\ handlers[h].arg = [ServerURL |-> "http://10.0.0.5:32400",
                                MediaContainer |-> "tracks", ContainerKey |-> "/y",
                                Key |-> "/x/1", Offset |-> 5000]

\* C19: a playMedia request whose media document cannot be fetched or
\* decoded changes nothing: no handler is left sending, no engine changes,
\* and the table and its records, their commandIDs included, are as before.
C19_FailedFetchChangesNothing ==
    [][\A c \in ClientIDs, id \in CommandIDs, s \in ServerURLs, ck \in ContainerKeys,
          k \in Keys, o \in Offsets :
          PlayMedia(c, id, "error", s, ck, k, o) =>
             /\ handlers' = handlers
             /\ engines' = engines
             /\ controllers' = controllers
             /\ rcs' = rcs]_vars

\* C20: a subscribe request leaves its record in the table and goes on to
\* its send; that send goes to the record, with the current snapshot and
\* the commandID of the subscribe request.
C20_SubscribeSendsSnapshot ==
    [][/\ \A c \in ClientIDs, id \in CommandIDs, u \in URLs :
             Subscribe(c, id, u) =>
                /\ handlers'[nreq + 1].pc = "send"
                /\ handlers'[nreq + 1].rc \in SubsOf(c)'
       /\ \A h \in DOMAIN handlers :
             SubscribeSend(h) =>
                /\ lastSend'.to = handlers[h].rc
                /\ lastSend'.clientID = handlers[h].clientID
                /\ IsSnapshot(lastSend'.mc, handlers[h].commandID)]_vars

\* A step of a request that carries clientID c: the request itself, or a
\* later step of its handler.
RequestStep(c) ==
    \/ \E id \in CommandIDs, u \in URLs : Subscribe(c, id, u)
    \/ \E id \in CommandIDs, cmd \in CmdTypes, t \in RequestTypes : Playback(c, id, cmd, t)
    \/ \E id \in CommandIDs, f \in Fetches :
          PlayMedia(c, id, f, "http://10.0.0.5:32400", "/x", "/x/1", 0)
    \/ \E id \in CommandIDs : PollWait(c, id) \/ PollNoWait(c, id)
    \/ Unsubscribe(c)
    \/ \E h \in DOMAIN handlers :
          /\ handlers[h].clientID = c
          /\ \/ PollDeadline(h) \/ PollForget(h) \/ EngineRecv(h)
             \/ SubscribeRecovered(h) \/ SubscribeSend(h) \/ SubscribeSendFailed(h)

\* The part of C21 about the other controllers' records: a step of a request
\* carrying A leaves every record of another clientID in the table, with its
\* commandID, url and timer.
FrameOfOtherControllers ==
    [][\A A \in ClientIDs :
          RequestStep(A) =>
             \A r \in Range(controllers) :
                rcs[r].clientID # A =>
                   /\ r \in Range(controllers')
                   /\ rcs'[r] = rcs[r]]_vars

\* C21: requests carrying one clientID never change a record of another
\* clientID (FrameOfOtherControllers) and never crash the device: a device
\* that has crashed has had requests of more than one clientID.
C21_OneControllerCannotCrash ==
    crashed => \A A \in ClientIDs : \E B \in ClientIDs \ {A} : seen[B] # {}

HelloSent == \E m \in sent : m.msg.header = "HELLO * HTTP/1.0"

\* C22: Start without a player fails with nothing bound and nothing sent;
\* with a player it goes on to the API socket.  The API socket is bound
\* before the discovery socket, and the discovery socket before HELLO is
\* sent.
C22_StartOrder ==
    [][/\ (startPc = "idle" /\ startPc' # "idle") =>
             /\ startPc' = IF players = <<>> THEN "failed" ELSE "api"
             /\ apiListener' = NilListener
             /\ discoveryConn' = "nil"
             /\ sent' = {}
       /\ (apiListener.state = "nil" /\ apiListener'.state # "nil") =>
             /\ players # <<>>
             /\ discoveryConn = "nil"
             /\ sent = {}
       /\ (discoveryConn = "nil" /\ discoveryConn' # "nil") =>
             /\ apiListener.state = "open"
             /\ ~HelloSent
       /\ (~HelloSent /\ HelloSent') =>
             /\ apiListener.state = "open"
             /\ discoveryConn # "nil"]_vars

\* C22's case: Start has returned nil with both sockets open and HELLO sent.
C22_Witness ==
    /\ startPc = "returned"
    /\ players # <<>>
    /\ apiListener.state = "open"
    /\ discoveryConn = "open"
    /\ HelloSent

\* C23: when Start has returned an error, neither the API listener nor the
\* discovery socket is open and neither service loop is running.
C23_FailedStartLeavesNothing ==
    startPc = "failed" =>
       /\ apiListener.state # "open"
       /\ discoveryConn # "open"
       /\ apiLoop # "serving"
       /\ discLoop.pc \notin {"reading", "responding"}

\* C24: every datagram the device sends (200 OK, HELLO, BYE) carries the
\* port of the API listener, which is open and not zero; a ClientDiscovery
\* exists only with the API listener bound, and holds its port.
C24_DatagramsCarryAPIPort ==
    [][/\ \A m \in sent' \ sent :
             /\ apiListener.state = "open"
             /\ m.msg.Port = apiListener.port
             /\ m.msg.Port # 0
       /\ ~discovery'.nil =>
             /\ apiListener'.state # "nil"
             /\ discovery'.Port = apiListener'.port]_vars

\* C24's case: HELLO, a 200 OK to a requester and BYE have been sent, each
\* with the listener's port.
C24_Witness ==
    /\ apiListener.port \in Ports
    /\ \E m \in sent : m.msg = message("HELLO * HTTP/1.0", apiListener.port)
    /\ \E m \in sent : m.to \in Addrs /\ m.msg = message("HTTP/1.0 200 OK", apiListener.port)
    /\ \E m \in sent : m.msg = message("BYE * HTTP/1.0", apiListener.port)

\* C25: on Stop, BYE is sent while the discovery socket is still open, and
\* the API listener is closed with the discovery socket already closed.
C25_ByeBeforeDiscoveryClose ==
    [][/\ (\E m \in sent' \ sent : m.msg.header = "BYE * HTTP/1.0") =>
             discoveryConn = "open"
       /\ (apiListener.state = "open" /\ apiListener'.state = "closed") =>
             discoveryConn = "closed"]_vars

\* C26: when Stop has returned, both service loops have exited: neither is
\* running and neither is left at its send on the shutdown channel.
C26_StopWaitsForBothLoops ==
    stopPc = "returned" =>
       /\ apiLoop = "exited"
       /\ discLoop.pc = "exited"

\* C27: the answer to GET /resources has one element for each registered
\* player, in order, none of them empty: the device's identity, that
\* player's capabilities joined with commas, and deviceClass htpc.
C27_OneElementPerPlayer ==
    [][Resources =>
         /\ Len(lastResources') = Len(players)
         /\ \A i \in DOMAIN lastResources' :
               /\ lastResources'[i] # ZeroPlayer
               /\ i \in DOMAIN players => lastResources'[i] = ResourcePlayer(players[i])]_vars

\* The place of player p's timeline in a snapshot.
PlaceOf(p) == Cardinality({j \in 1..p : players[j].Timeline # NilTimeline})

\* C28: the pump stores the value its engine pushed as the player's
\* Timeline and only then runs the fan-out: the step that takes the value
\* stores it and sends nothing, the stored value stays while the pump is in
\* its fan-out, the snapshot of that fan-out holds it, and every send of
\* the fan-out carries that snapshot.
C28_FanOutCarriesTheUpdate ==
    [][\A p \in DOMAIN pumps :
          /\ (pumps[p].pc = "idle" /\ pumps'[p].pc # "idle") =>
                /\ players'[p].Timeline = engines[p].State
                /\ pumps'[p].pc = "notify"
                /\ lastSend' = lastSend
          /\ pumps[p].pc \in {"notify", "sending"} =>
                players'[p].Timeline = players[p].Timeline
          /\ pumps'[p].pc = "sending" =>
                /\ players'[p].Timeline # NilTimeline
                /\ pumps'[p].t[PlaceOf(p)'] =
                      [Type |-> players'[p].Type, State |-> players'[p].Timeline]
          /\ (PumpSendSubscribing(p) \/ PumpSendPolling(p)) =>
                lastSend'.mc.timelines = pumps[p].t]_vars

\* C28's case: the engine was told to play, pushed playing, and the fan-out
\* of that update has sent a snapshot that says playing.
C28_Witness ==
    \E p \in DOMAIN pumps :
       /\ pumps[p].pc = "sending"
       /\ pumps[p].idx > 1
       /\ players[p].Timeline = StatePlaying
       /\ lastSend.mc.timelines = pumps[p].t
       /\ lastSend.mc.timelines[PlaceOf(p)].State = StatePlaying

\* C29: a fan-out sends to every record of the table: when it has come to
\* its end, no record of the table is left without its send.
C29_FanOutServesEveryRecord ==
    \A p \in DOMAIN pumps :
       (pumps[p].pc = "sending" /\ crashed) => pumps[p].idx > Len(controllers)

\* C30: a send of the fan-out to a subscribing record that fails changes
\* neither the table nor any record or timer, is not tried again, and
\* leaves the fan-out at the next record with the same snapshot.
C30_FailedDeliveryAbsorbed ==
    [][\A p \in DOMAIN pumps :
          PumpSendFailed(p) =>
             /\ controllers' = controllers
             /\ rcs' = rcs
             /\ callbacks' = callbacks
             /\ ~crashed'
             /\ lock' = lock
             /\ pumps'[p] = [pumps[p] EXCEPT !.idx = @ + 1]]_vars

\* C30's case: two subscribing records; the fan-out's send to the first has
\* failed (nothing was ever delivered), the record is in place with its
\* timer armed, and the fan-out is at the second record.
C30_Witness ==
    \E p \in DOMAIN pumps :
       /\ pumps[p].pc = "sending"
       /\ pumps[p].idx = 2
       /\ Len(controllers) = 2
       /\ rcs[controllers[1]].kind = "subscribing"
       /\ rcs[controllers[1]].timeout = "armed"
       /\ rcs[controllers[2]].kind = "subscribing"
       /\ lastSend = NoSend

\* C31: no send is ever attempted on a polling record's channel after the
\* channel has been closed: no step of a fan-out is such a send.  (That at
\* most one MediaContainer goes through a channel holds: Send closes the
\* channel right after its one send.)
C31_NoSendOnClosedChannel ==
    [][\A p \in DOMAIN pumps : ~PumpSendClosed(p)]_vars

\* C32: the discovery loop ends only when its socket has been closed: a step
\* in which Serve returns starts with the socket closed.
C32_ServeEndsOnlyOnClose ==
    [][(discLoop.pc \in {"reading", "responding"} /\ discLoop'.pc = "exited")
          => discoveryConn = "closed"]_vars

\* C36: a fan-out is never at a polling record whose channel is open while
\* the handler that owns the channel has left its select: in such a state
\* the send has no receiver, now or later, and the handler's
\* forgetController waits for the mutex the fan-out holds.
C36_FanOutNeverStuck ==
    \A p \in DOMAIN pumps :
       (pumps[p].pc = "sending" /\ pumps[p].idx <= Len(controllers)) =>
          LET rc == controllers[pumps[p].idx]
          IN  (rcs[rc].kind = "polling" /\ rcs[rc].ch \notin closed) =>
                 /\ rcs[rc].ch \in DOMAIN handlers
                 /\ handlers[rcs[rc].ch].pc = "parked"

\* C39: the expiry callback of a record whose timer has been reset since it
\* fired (the record is in the table with its timer armed) does not remove
\* that record.
C39_RefreshedRecordSurvivesOldExpiry ==
    [][\A t \in DOMAIN callbacks :
          (TimerCallback(t) /\ t \in Range(controllers) /\ rcs[t].timeout = "armed")
             => t \in Range(controllers')]_vars

\* C33: once Stop has been called after a successful Start, it returns, with
\* the API listener closed and its loop gone, whether BYE was sent or not.
C33_StopReturns ==
    (stopPc = "bye") ~>
       (stopPc = "returned" /\ apiListener.state = "closed" /\ apiLoop = "exited")

\* C33's case: Stop has returned although its BYE could not be sent.
C33_Witness ==
    /\ stopPc = "returned"
    /\ apiListener.state = "closed"
    /\ \A m \in sent : m.msg.header # "BYE * HTTP/1.0"

\* C34: a player's Timeline is written only by a goroutine that holds
\* playersLock, never while another goroutine is inside collectTimelines
\* (holds playersLock for its reads).
C34_TimelineWrittenUnderPlayersLock ==
    [][\A p \in DOMAIN players :
          players'[p].Timeline # players[p].Timeline => playersLock = p]_vars

\* C35: playersLock is not held by a goroutine that is at a channel send or
\* at a delivery: not by a pump in the sends of its fan-out, not by a
\* handler sending a command to an engine or a timeline to a controller.
C35_NoSendUnderPlayersLock ==
    /\ \A p \in DOMAIN pumps : pumps[p].pc = "sending" => playersLock # p
    /\ \A h \in DOMAIN handlers :
          handlers[h].pc \in {"sending", "post"} => playersLock # -h

\* C35's case: a fan-out has taken its snapshot and is at a delivery, a
\* handler is at its command send, and playersLock is free.
C35_Witness ==
    /\ playersLock = 0
    /\ \E p \in DOMAIN pumps :
          /\ pumps[p].pc = "sending"
          /\ pumps[p].idx <= Len(controllers)
          /\ p \in DOMAIN snapAt
    /\ \E h \in DOMAIN handlers : handlers[h].pc = "sending"

\* C37: a playback handler that is at its command send holds neither
\* controllersLock nor playersLock.
C37_BlockedHandlerHoldsNoMutex ==
    \A h \in DOMAIN handlers :
       handlers[h].pc = "sending" => (lock # -h /\ playersLock # -h)

\* C37's case: a handler is at its command send to an engine that is not
\* receiving (it is at its own send of a timeline), and a request of
\* another controller, made after the handler's, has registered its record.
C37_Witness ==
    \E h \in DOMAIN handlers :
       /\ handlers[h].pc = "sending"
       /\ engines[handlers[h].player].pc = "emit"
       /\ \E rc \in Range(controllers) :
             /\ rc > h
             /\ rcs[rc].clientID # handlers[h].clientID

\* C38: the snapshots sent to one record never go backwards: a send to a
\* record carries a snapshot that is not older than the one last sent to it.
C38_DeliveriesNeverGoBack ==
    [][\A rc \in DOMAIN gotAt : rc \in DOMAIN gotAt' => gotAt'[rc] >= gotAt[rc]]_vars

====
